---- MODULE Spec2Model ----
(***************************************************************************)
(* Model of src/lib/llm.ts: the Anthropic client wrapper callLLM (live     *)
(* backend with mock fallback) and the regex extractor                     *)
(* parseDemographicResponse.                                               *)
(*                                                                         *)
(* A JavaScript string is modelled as the sequence of its UTF-16 code      *)
(* units, so that matching, trimming, escaping and number parsing are      *)
(* computed unit by unit as the engine computes them.  A printable ASCII   *)
(* character, tab, line feed, form feed and carriage return are written as *)
(* one-character strings; every other code unit is written by its four     *)
(* lower-case hexadecimal digits, "u2028".                                 *)
(*                                                                         *)
(* A JavaScript number is a double.  It is modelled as [int |-> n] when its*)
(* decimal has at most nine significant digits, which a double holds       *)
(* exactly, and as [double |-> digits], the double nearest to the decimal  *)
(* written by these digits (Infinity beyond the range of doubles), when it *)
(* has more.                                                               *)
(***************************************************************************)
EXTENDS Integers, Sequences, FiniteSets, TLC

VARIABLES
    apiKey,     \* process.env.ANTHROPIC_API_KEY
    llmModel,   \* process.env.LLM_MODEL
    llm,        \* the module-level client, NULL in mock mode
    pc,         \* where the current analysis run stands
    runs,       \* analysis runs started in this process
    papers,     \* the paper summaries of the current run
    prompt,     \* callLLM's first argument
    system,     \* callLLM's optional second argument
    invocation, \* the llm.invoke of the current call: messages and outcome
    errors,     \* console.error lines written by callLLM's catch block
    promise,    \* state of the promise callLLM returned
    result,     \* the LLMResponse the promise was fulfilled with
    response,   \* the argument of parseDemographicResponse
    parsed      \* its return value, NONE before the call

vars == <<apiKey, llmModel, llm, pc, runs, papers, prompt, system, invocation,
          errors, promise, result, response, parsed>>

clientVars == <<apiKey, llmModel, llm, pc, runs, papers, prompt, system,
                invocation, errors, promise, result>>

clientVarsButPc == <<apiKey, llmModel, llm, runs, papers, prompt, system,
                     invocation, errors, promise, result>>

\* a variable that holds no value yet
NONE == [none |-> TRUE]

-----------------------------------------------------------------------------
(* Characters and the string built-ins the code uses                       *)

NL == <<"\n">>

Digits == <<"0", "1", "2", "3", "4", "5", "6", "7", "8", "9">>

IsDigit(c) == \E d \in 1..Len(Digits) : Digits[d] = c

DigitValue(c) == (CHOOSE d \in 1..Len(Digits) : Digits[d] = c) - 1

\* the characters the regex dot does not match
LineTerminators == {"\n", "\r", "u2028", "u2029"}

\* the characters String.prototype.trim strips
WhiteSpace ==
    {" ", "\t", "\n", "\r", "\f", "u000b", "u00a0", "ufeff", "u2028", "u2029",
     "u1680", "u2000", "u2001", "u2002", "u2003", "u2004", "u2005", "u2006",
     "u2007", "u2008", "u2009", "u200a", "u202f", "u205f", "u3000"}

Min(S) == CHOOSE x \in S : \A y \in S : x <= y

\* String.prototype.trim
trim(s) ==
    IF \A i \in 1..Len(s) : s[i] \in WhiteSpace THEN <<>>
    ELSE LET lo == CHOOSE i \in 1..Len(s) :
                      /\ s[i] \notin WhiteSpace
                      /\ \A j \in 1..(i - 1) : s[j] \in WhiteSpace
             hi == CHOOSE i \in 1..Len(s) :
                      /\ s[i] \notin WhiteSpace
                      /\ \A j \in (i + 1)..Len(s) : s[j] \in WhiteSpace
         IN  SubSeq(s, lo, hi)

\* a number that is an integer of at most nine significant digits
Exact(n) == [int |-> n]

\* the double nearest to the decimal written by the digits
Double(digits) == [double |-> digits]

NaN == [nan |-> TRUE]

IsExact(v) == DOMAIN v = {"int"}

\* a + b on numbers: the sum stays exact below ten digits
Plus(a, b) ==
    IF IsExact(a) /\ IsExact(b) THEN Exact(a.int + b.int)
    ELSE IF a = NaN \/ b = NaN THEN NaN
    ELSE [sum |-> <<a, b>>]

\* the value of at most nine digits
RECURSIVE DecimalValue(_)
DecimalValue(ds) ==
    IF ds = <<>> THEN 0
    ELSE 10 * DecimalValue(SubSeq(ds, 1, Len(ds) - 1)) + DigitValue(ds[Len(ds)])

\* the digits without their leading zeros
Significant(ds) ==
    LET nz == {i \in 1..Len(ds) : ds[i] # "0"}
    IN  IF nz = {} THEN <<>> ELSE SubSeq(ds, Min(nz), Len(ds))

\* parseInt(s) in radix 10 for a string without sign or leading blanks: the
\* number written by the longest prefix of digits, NaN when that prefix is
\* empty.  A run of more than nine significant digits gives the nearest
\* double, which from 2^53 on is not the integer as written.
parseInt(s) ==
    LET stops == {i \in 1..Len(s) : ~IsDigit(s[i])}
        n == IF stops = {} THEN Len(s) ELSE Min(stops) - 1
        sig == Significant(SubSeq(s, 1, n))
    IN  IF n = 0 THEN NaN
        ELSE IF Len(sig) <= 9 THEN Exact(DecimalValue(sig))
        ELSE Double(sig)

-----------------------------------------------------------------------------
(* String.prototype.match for the patterns of the extractor.  Every pattern *)
(* is  <literal>.*?(\d+)%  and is represented by its literal.              *)

\* match returns null
NoMatch == <<>>

LiteralAt(text, i, literal) ==
    /\ i + Len(literal) - 1 <= Len(text)
    /\ \A k \in 1..Len(literal) : text[i + k - 1] = literal[k]

\* the group written (\d)%: one digit only
DigitRunEndSingle(text, j) == j

\* \d+ is greedy: the last index of the run of digits that starts at j
DigitRunEnd(text, j) ==
    CHOOSE r \in j..Len(text) :
        /\ \A k \in j..r : IsDigit(text[k])
        /\ r = Len(text) \/ ~IsDigit(text[r + 1])

\* (\d+)% matches at j; giving digits back never helps, the next character
\* would be a digit and not the percent sign
GroupAt(text, j) ==
    /\ j <= Len(text)
    /\ IsDigit(text[j])
    /\ DigitRunEnd(text, j) < Len(text)
    /\ text[DigitRunEnd(text, j) + 1] = "%"

\* the dot matches no line terminator: the first index from p on that holds
\* one, or the index past the end of the text
LineEnd(text, p) ==
    CHOOSE q \in p..(Len(text) + 1) :
        /\ q = Len(text) + 1 \/ text[q] \in LineTerminators
        /\ \A k \in p..(q - 1) : text[k] \notin LineTerminators

\* .*? from p: the indices where the group can start, the dot having
\* consumed only characters of the line
LazyStops(text, p) == {j \in p..(LineEnd(text, p) - 1) : GroupAt(text, j)}

\* text.match(pattern): the leftmost start that matches and from it the
\* shortest expansion of the dot; <<match[0], match[1]>> or null
match(text, literal) ==
    LET starts == {i \in 1..Len(text) :
                      /\ LiteralAt(text, i, literal)
                      /\ LazyStops(text, i + Len(literal)) # {}}
    IN  IF starts = {} THEN NoMatch
        ELSE LET i == Min(starts)
                 j == Min(LazyStops(text, i + Len(literal)))
                 r == DigitRunEnd(text, j)
             IN  <<SubSeq(text, i, r + 1), SubSeq(text, j, r)>>

\* an extractor that validates the range and clamps to 100
extractPercentageClamped(text, pattern) ==
    LET m == match(text, pattern)
        n == IF m # NoMatch THEN parseInt(m[2]) ELSE Exact(0)
    IN  IF ~IsExact(n) \/ n.int > 100 THEN Exact(100) ELSE n

extractPercentage(text, pattern) ==
    LET m == match(text, pattern)
    IN  IF m # NoMatch THEN parseInt(m[2]) ELSE Exact(0)

PatPediatric == <<"P", "e", "d", "i", "a", "t", "r", "i", "c">>
PatYoungAdults == <<"Y", "o", "u", "n", "g", " ", "A", "d", "u", "l", "t", "s">>
PatMiddleAged == <<"M", "i", "d", "d", "l", "e", "-", "a", "g", "e", "d", " ", "A", "d", "u", "l", "t", "s">>
\* the pattern written without the bracket: /Elderly.*?(\d+)%/
PatElderlyLoose == <<"E", "l", "d", "e", "r", "l", "y">>

PatElderly == <<"E", "l", "d", "e", "r", "l", "y", " ", "(", "6", "5", "-", "7", "5", ")">>
PatVeryElderly == <<"V", "e", "r", "y", " ", "E", "l", "d", "e", "r", "l", "y">>
PatMale == <<"M", "a", "l", "e">>
PatFemale == <<"F", "e", "m", "a", "l", "e">>
PatGenderNotReported == <<"G", "e", "n", "d", "e", "r", " ", "n", "o", "t", " ", "r", "e", "p", "o", "r", "t", "e", "d">>
PatPregnant == <<"P", "r", "e", "g", "n", "a", "n", "t", " ", "i", "n", "d", "i", "v", "i", "d", "u", "a", "l", "s">>
PatPregnancyNotMentioned == <<"P", "r", "e", "g", "n", "a", "n", "c", "y", " ", "s", "t", "a", "t", "u", "s", " ", "n", "o", "t", " ", "m", "e", "n", "t", "i", "o", "n", "e", "d">>
PatNorthAmerica == <<"N", "o", "r", "t", "h", " ", "A", "m", "e", "r", "i", "c", "a">>
PatEurope == <<"E", "u", "r", "o", "p", "e">>
PatAsia == <<"A", "s", "i", "a">>
PatAfrica == <<"A", "f", "r", "i", "c", "a">>
PatSouthAmerica == <<"S", "o", "u", "t", "h", " ", "A", "m", "e", "r", "i", "c", "a">>
PatOceania == <<"O", "c", "e", "a", "n", "i", "a">>

\* the six blind spots the mock text lists
criticalFindingsOfMockText ==
    << "Complete exclusion of pediatric populations",
       "Systematic exclusion of pregnant individuals",
       "Severe underrepresentation of very elderly (>75)",
       "Complete absence of African populations",
       "Minimal representation of young adults 18-40",
       "Geographic bias toward Western/developed nations" >>

criticalFindings ==
    << "Complete exclusion of pediatric populations",
       "Systematic exclusion of pregnant individuals",
       "Severe underrepresentation of very elderly (>75)",
       "Complete absence of African populations",
       "Geographic bias toward Western/developed nations" >>

age(text) ==
    ("0-18" :> extractPercentage(text, PatPediatric)) @@
    ("18-40" :> extractPercentage(text, PatYoungAdults)) @@
    ("40-65" :> extractPercentage(text, PatMiddleAged)) @@
    ("65-75" :> extractPercentage(text, PatElderly)) @@
    (">75" :> extractPercentage(text, PatVeryElderly)) @@
    ("not_specified" :> Exact(0))

\* a map that holds only the labels found in the text
genderSparse(text) ==
    LET found == {e \in { <<"male", PatMale>>, <<"female", PatFemale>>,
                          <<"not_specified", PatGenderNotReported>> } :
                     match(text, e[2]) # NoMatch}
    IN  [k \in {e[1] : e \in found} |->
            extractPercentage(text, (CHOOSE e \in found : e[1] = k)[2])]

gender(text) ==
    ("male" :> extractPercentage(text, PatMale)) @@
    ("female" :> extractPercentage(text, PatFemale)) @@
    ("not_specified" :> extractPercentage(text, PatGenderNotReported))

pregnancyStatus(text) ==
    ("pregnant" :> extractPercentage(text, PatPregnant)) @@
    ("not_pregnant" :> Exact(0)) @@
    ("not_specified" :> extractPercentage(text, PatPregnancyNotMentioned))

geography(text) ==
    ("North America" :> extractPercentage(text, PatNorthAmerica)) @@
    ("Europe" :> extractPercentage(text, PatEurope)) @@
    ("Asia" :> extractPercentage(text, PatAsia)) @@
    ("Africa" :> extractPercentage(text, PatAfrica)) @@
    ("Other" :> Plus(extractPercentage(text, PatSouthAmerica),
                     extractPercentage(text, PatOceania))) @@
    ("not_specified" :> Exact(0))

parseDemographicResponse(text) ==
    [ age |-> age(text),
      gender |-> gender(text),
      pregnancyStatus |-> pregnancyStatus(text),
      geography |-> geography(text),
      criticalFindings |-> criticalFindings ]

-----------------------------------------------------------------------------
(* The canned analysis of the mock path                                    *)

mockTemplate ==
    <<>> \o NL \o   \* llm.ts:108
    <<"B", "a", "s", "e", "d", " ", "o", "n", " ", "t", "h", "e", " ", "a", "n", "a", "l", "y", "s", "i", "s", " ", "o", "f", " ", "t", "h", "e", " ", "p", "r", "o", "v", "i", "d", "e", "d", " ", "r", "e", "s", "e", "a", "r", "c", "h", " ", "p", "a", "p", "e", "r", "s", ":">> \o NL \o   \* llm.ts:109
    <<>> \o NL \o   \* llm.ts:110
    <<"*", "*", "A", "g", "e", " ", "D", "e", "m", "o", "g", "r", "a", "p", "h", "i", "c", "s", ":", "*", "*">> \o NL \o   \* llm.ts:111
    <<"-", " ", "P", "e", "d", "i", "a", "t", "r", "i", "c", " ", "(", "0", "-", "1", "8", ")", ":", " ", "0", "%", " ", "-", " ", "N", "o", " ", "s", "t", "u", "d", "i", "e", "s", " ", "i", "n", "c", "l", "u", "d", "e", "d", " ", "c", "h", "i", "l", "d", "r", "e", "n", " ", "o", "r", " ", "a", "d", "o", "l", "e", "s", "c", "e", "n", "t", "s">> \o NL \o   \* llm.ts:112
    <<"-", " ", "Y", "o", "u", "n", "g", " ", "A", "d", "u", "l", "t", "s", " ", "(", "1", "8", "-", "4", "0", ")", ":", " ", "1", "5", "%", " ", "-", " ", "L", "i", "m", "i", "t", "e", "d", " ", "r", "e", "p", "r", "e", "s", "e", "n", "t", "a", "t", "i", "o", "n">> \o NL \o   \* llm.ts:113
    <<"-", " ", "M", "i", "d", "d", "l", "e", "-", "a", "g", "e", "d", " ", "A", "d", "u", "l", "t", "s", " ", "(", "4", "0", "-", "6", "5", ")", ":", " ", "6", "0", "%", " ", "-", " ", "W", "e", "l", "l", " ", "r", "e", "p", "r", "e", "s", "e", "n", "t", "e", "d">> \o NL \o   \* llm.ts:114
    <<"-", " ", "E", "l", "d", "e", "r", "l", "y", " ", "(", "6", "5", "-", "7", "5", ")", ":", " ", "4", "5", "%", " ", "-", " ", "M", "o", "d", "e", "r", "a", "t", "e", " ", "r", "e", "p", "r", "e", "s", "e", "n", "t", "a", "t", "i", "o", "n">> \o NL \o   \* llm.ts:115
    <<"-", " ", "V", "e", "r", "y", " ", "E", "l", "d", "e", "r", "l", "y", " ", "(", ">", "7", "5", ")", ":", " ", "8", "%", " ", "-", " ", "S", "i", "g", "n", "i", "f", "i", "c", "a", "n", "t", "l", "y", " ", "u", "n", "d", "e", "r", "r", "e", "p", "r", "e", "s", "e", "n", "t", "e", "d">> \o NL \o   \* llm.ts:116
    <<>> \o NL \o   \* llm.ts:117
    <<"*", "*", "G", "e", "n", "d", "e", "r", " ", "D", "e", "m", "o", "g", "r", "a", "p", "h", "i", "c", "s", ":", "*", "*">> \o NL \o   \* llm.ts:118
    <<"-", " ", "M", "a", "l", "e", ":", " ", "4", "2", "%">> \o NL \o   \* llm.ts:119
    <<"-", " ", "F", "e", "m", "a", "l", "e", ":", " ", "4", "8", "%">> \o NL \o   \* llm.ts:120
    <<"-", " ", "G", "e", "n", "d", "e", "r", " ", "n", "o", "t", " ", "r", "e", "p", "o", "r", "t", "e", "d", ":", " ", "1", "0", "%">> \o NL \o   \* llm.ts:121
    <<>> \o NL \o   \* llm.ts:122
    <<"*", "*", "P", "r", "e", "g", "n", "a", "n", "c", "y", " ", "S", "t", "a", "t", "u", "s", ":", "*", "*">> \o NL \o   \* llm.ts:123
    <<"-", " ", "P", "r", "e", "g", "n", "a", "n", "t", " ", "i", "n", "d", "i", "v", "i", "d", "u", "a", "l", "s", ":", " ", "0", "%", " ", "-", " ", "S", "y", "s", "t", "e", "m", "a", "t", "i", "c", "a", "l", "l", "y", " ", "e", "x", "c", "l", "u", "d", "e", "d">> \o NL \o   \* llm.ts:124
    <<"-", " ", "P", "r", "e", "g", "n", "a", "n", "c", "y", " ", "s", "t", "a", "t", "u", "s", " ", "n", "o", "t", " ", "m", "e", "n", "t", "i", "o", "n", "e", "d", ":", " ", "1", "0", "0", "%">> \o NL \o   \* llm.ts:125
    <<>> \o NL \o   \* llm.ts:126
    <<"*", "*", "G", "e", "o", "g", "r", "a", "p", "h", "i", "c", " ", "D", "i", "s", "t", "r", "i", "b", "u", "t", "i", "o", "n", ":", "*", "*">> \o NL \o   \* llm.ts:127
    <<"-", " ", "N", "o", "r", "t", "h", " ", "A", "m", "e", "r", "i", "c", "a", ":", " ", "5", "2", "%", " ", "(", "p", "r", "e", "d", "o", "m", "i", "n", "a", "n", "t", "l", "y", " ", "U", "S", "A", "-", "b", "a", "s", "e", "d", " ", "s", "t", "u", "d", "i", "e", "s", ")">> \o NL \o   \* llm.ts:128
    <<"-", " ", "E", "u", "r", "o", "p", "e", ":", " ", "2", "8", "%", " ", "(", "W", "e", "s", "t", "e", "r", "n", " ", "E", "u", "r", "o", "p", "e", " ", "o", "v", "e", "r", "r", "e", "p", "r", "e", "s", "e", "n", "t", "e", "d", ")">> \o NL \o   \* llm.ts:129
    <<"-", " ", "A", "s", "i", "a", ":", " ", "1", "2", "%", " ", "(", "p", "r", "i", "m", "a", "r", "i", "l", "y", " ", "C", "h", "i", "n", "a", " ", "a", "n", "d", " ", "J", "a", "p", "a", "n", ")">> \o NL \o   \* llm.ts:130
    <<"-", " ", "A", "f", "r", "i", "c", "a", ":", " ", "0", "%", " ", "-", " ", "N", "o", " ", "r", "e", "p", "r", "e", "s", "e", "n", "t", "a", "t", "i", "o", "n">> \o NL \o   \* llm.ts:131
    <<"-", " ", "S", "o", "u", "t", "h", " ", "A", "m", "e", "r", "i", "c", "a", ":", " ", "3", "%">> \o NL \o   \* llm.ts:132
    <<"-", " ", "O", "c", "e", "a", "n", "i", "a", ":", " ", "5", "%">> \o NL \o   \* llm.ts:133
    <<>> \o NL \o   \* llm.ts:134
    <<"*", "*", "C", "r", "i", "t", "i", "c", "a", "l", " ", "B", "l", "i", "n", "d", " ", "S", "p", "o", "t", "s", " ", "I", "d", "e", "n", "t", "i", "f", "i", "e", "d", ":", "*", "*">> \o NL \o   \* llm.ts:135
    <<"1", ".", " ", "C", "o", "m", "p", "l", "e", "t", "e", " ", "e", "x", "c", "l", "u", "s", "i", "o", "n", " ", "o", "f", " ", "p", "e", "d", "i", "a", "t", "r", "i", "c", " ", "p", "o", "p", "u", "l", "a", "t", "i", "o", "n", "s", " ", "(", "C", "R", "I", "T", "I", "C", "A", "L", ")">> \o NL \o   \* llm.ts:136
    <<"2", ".", " ", "S", "y", "s", "t", "e", "m", "a", "t", "i", "c", " ", "e", "x", "c", "l", "u", "s", "i", "o", "n", " ", "o", "f", " ", "p", "r", "e", "g", "n", "a", "n", "t", " ", "i", "n", "d", "i", "v", "i", "d", "u", "a", "l", "s", " ", "(", "C", "R", "I", "T", "I", "C", "A", "L", ")">> \o NL \o   \* llm.ts:137
    <<"3", ".", " ", "S", "e", "v", "e", "r", "e", " ", "u", "n", "d", "e", "r", "r", "e", "p", "r", "e", "s", "e", "n", "t", "a", "t", "i", "o", "n", " ", "o", "f", " ", "v", "e", "r", "y", " ", "e", "l", "d", "e", "r", "l", "y", " ", "(", ">", "7", "5", ")", " ", "d", "e", "s", "p", "i", "t", "e", " ", "d", "i", "s", "e", "a", "s", "e", " ", "r", "e", "l", "e", "v", "a", "n", "c", "e", " ", "(", "H", "I", "G", "H", ")">> \o NL \o   \* llm.ts:138
    <<"4", ".", " ", "C", "o", "m", "p", "l", "e", "t", "e", " ", "a", "b", "s", "e", "n", "c", "e", " ", "o", "f", " ", "A", "f", "r", "i", "c", "a", "n", " ", "p", "o", "p", "u", "l", "a", "t", "i", "o", "n", "s", " ", "(", "C", "R", "I", "T", "I", "C", "A", "L", ")">> \o NL \o   \* llm.ts:139
    <<"5", ".", " ", "M", "i", "n", "i", "m", "a", "l", " ", "r", "e", "p", "r", "e", "s", "e", "n", "t", "a", "t", "i", "o", "n", " ", "o", "f", " ", "y", "o", "u", "n", "g", " ", "a", "d", "u", "l", "t", "s", " ", "1", "8", "-", "4", "0", " ", "(", "M", "E", "D", "I", "U", "M", ")">> \o NL \o   \* llm.ts:140
    <<"6", ".", " ", "G", "e", "o", "g", "r", "a", "p", "h", "i", "c", " ", "b", "i", "a", "s", " ", "t", "o", "w", "a", "r", "d", " ", "W", "e", "s", "t", "e", "r", "n", "/", "d", "e", "v", "e", "l", "o", "p", "e", "d", " ", "n", "a", "t", "i", "o", "n", "s", " ", "(", "H", "I", "G", "H", ")">> \o NL \o   \* llm.ts:141
    <<>> \o NL \o   \* llm.ts:142
    <<"*", "*", "M", "e", "t", "h", "o", "d", "o", "l", "o", "g", "i", "c", "a", "l", " ", "Q", "u", "a", "l", "i", "t", "y", " ", "I", "s", "s", "u", "e", "s", ":", "*", "*">> \o NL \o   \* llm.ts:143
    <<"-", " ", "1", "5", "%", " ", "o", "f", " ", "s", "t", "u", "d", "i", "e", "s", " ", "f", "a", "i", "l", "e", "d", " ", "t", "o", " ", "r", "e", "p", "o", "r", "t", " ", "d", "e", "m", "o", "g", "r", "a", "p", "h", "i", "c", " ", "b", "r", "e", "a", "k", "d", "o", "w", "n", "s">> \o NL \o   \* llm.ts:144
    <<"-", " ", "3", "0", "%", " ", "u", "s", "e", "d", " ", "c", "o", "n", "v", "e", "n", "i", "e", "n", "c", "e", " ", "s", "a", "m", "p", "l", "i", "n", "g", " ", "w", "i", "t", "h", "o", "u", "t", " ", "d", "e", "m", "o", "g", "r", "a", "p", "h", "i", "c", " ", "s", "t", "r", "a", "t", "i", "f", "i", "c", "a", "t", "i", "o", "n">> \o NL \o   \* llm.ts:145
    <<"-", " ", "O", "n", "l", "y", " ", "5", "%", " ", "i", "n", "c", "l", "u", "d", "e", "d", " ", "e", "x", "p", "l", "i", "c", "i", "t", " ", "e", "f", "f", "o", "r", "t", "s", " ", "t", "o", " ", "r", "e", "c", "r", "u", "i", "t", " ", "u", "n", "d", "e", "r", "r", "e", "p", "r", "e", "s", "e", "n", "t", "e", "d", " ", "p", "o", "p", "u", "l", "a", "t", "i", "o", "n", "s">> \o NL \o   \* llm.ts:146
    <<" ", " ">>   \* llm.ts:147

mockResponse == trim(mockTemplate)

-----------------------------------------------------------------------------
(* Module initialization                                                   *)

\* an optional value: undefined, or one value
Undefined == <<>>

Some(v) == <<v>>

\* JavaScript truthiness of an optional string: undefined and "" are falsy
Truthy(v) == v # Undefined /\ v[1] # <<>>

NULL == [null |-> TRUE]

DefaultModel == "claude-3-5-sonnet-20241022"

modelName == IF llmModel # Undefined THEN llmModel[1] ELSE DefaultModel

\* the test written against undefined only: an empty key counts as a key
useMockLLMUndefinedOnly == apiKey = Undefined

useMockLLM == ~Truthy(apiKey)

\* new ChatAnthropic({...})
ChatAnthropic ==
    [modelName |-> modelName, temperature |-> "0.1", anthropicApiKey |-> apiKey[1]]

\* the client after the module body has run; the constructor may throw
InitialClient(ctorThrows) ==
    IF ~useMockLLM
    THEN IF ctorThrows THEN NULL ELSE ChatAnthropic
    ELSE NULL

ApiKeys == {Undefined, Some(<<>>), Some(<<"s", "k", "-", "a", "n", "t", "-", "k", "e", "y">>)}

LlmModels == {Undefined, Some("claude-3-haiku-20240307")}

Init ==
    /\ apiKey \in ApiKeys
    /\ llmModel \in LlmModels
    /\ \E ctorThrows \in BOOLEAN : llm = InitialClient(ctorThrows)
    /\ pc = "idle"
    /\ runs = 0
    /\ papers = <<>>
    /\ prompt = <<>>
    /\ system = Undefined
    /\ invocation = NONE
    /\ errors = 0
    /\ promise = "none"
    /\ result = NONE
    /\ response = <<>>
    /\ parsed = NONE

-----------------------------------------------------------------------------
(* The caller: one analysis run in model mode builds a prompt from the     *)
(* papers, awaits callLLM and hands the content to the extractor           *)

MaxRuns == 2

MaxPapers == 1

PromptLimit == 60

PaperSet == { [title |-> <<"T", "r", "i", "a", "l", " ", "A">>, abstract |-> <<"A", "d", "u", "l", "t", "s", " ", "4", "0", "-", "6", "5", ",", " ", "6", "0", "%", " ", "m", "a", "l", "e">>] }

PaperSeqs == UNION {[1..n -> PaperSet] : n \in 0..MaxPapers}

Systems == {Undefined, Some(<<>>), Some(<<"Y", "o", "u", " ", "a", "r", "e", " ", "a", " ", "d", "e", "m", "o", "g", "r", "a", "p", "h", "e", "r", ".">>)}

RECURSIVE PaperLines(_)
PaperLines(ps) ==
    IF ps = <<>> THEN <<>>
    ELSE Head(ps).title \o NL \o Head(ps).abstract \o NL \o PaperLines(Tail(ps))

BuildPrompt(ps) ==
    LET full == <<"A", "n", "a", "l", "y", "z", "e", " ", "t", "h", "e", " ", "d", "e", "m", "o", "g", "r", "a", "p", "h", "i", "c", "s", " ", "o", "f", " ", "t", "h", "e", "s", "e", " ", "p", "a", "p", "e", "r", "s", ":", "\n">> \o PaperLines(ps)
    IN  SubSeq(full, 1, IF Len(full) < PromptLimit THEN Len(full) ELSE PromptLimit)

Analyze ==
    /\ pc \in {"idle", "done"}
    /\ runs < MaxRuns
    /\ \E ps \in PaperSeqs, sys \in Systems :
          /\ papers' = ps
          /\ prompt' = BuildPrompt(ps)
          /\ system' = sys
    /\ pc' = "called"
    /\ runs' = runs + 1
    /\ invocation' = NONE
    /\ promise' = "none"
    /\ result' = NONE
    /\ response' = <<>>
    /\ parsed' = NONE
    /\ UNCHANGED <<apiKey, llmModel, llm, errors>>

-----------------------------------------------------------------------------
(* callLLM                                                                 *)

\* what llm.invoke does with one request
Outcomes == {"resolves", "rejects", "throws", "never"}

Messages ==
    (IF Truthy(system) THEN <<[role |-> "system", content |-> system[1]]>> ELSE <<>>)
        \o <<[role |-> "human", content |-> prompt]>>

\* a catch block that logs and throws the error on
CatchRethrow ==
    /\ errors' = errors + 1
    /\ pc' = "returned"
    /\ promise' = "rejected"
    /\ UNCHANGED <<llm, result>>

\* a catch block that also drops the client, so that later calls go mock
CatchDemote ==
    /\ errors' = errors + 1
    /\ pc' = "delay"
    /\ promise' = "pending"
    /\ llm' = NULL
    /\ UNCHANGED result

\* the catch block: log and fall through to the mock response
Catch ==
    /\ errors' = errors + 1
    /\ pc' = "delay"
    /\ promise' = "pending"
    /\ UNCHANGED <<llm, result>>

\* from the call to the first await: llm.invoke on the live path, the
\* 500 ms timer on the mock path
callLLM ==
    /\ pc = "called"
    /\ IF llm # NULL
       THEN \E o \in Outcomes :
              /\ invocation' = [messages |-> Messages, outcome |-> o]
              /\ IF o = "throws"
                 THEN Catch
                 ELSE /\ pc' = "awaiting"
                      /\ promise' = "pending"
                      /\ UNCHANGED <<llm, errors, result>>
       ELSE /\ pc' = "delay"
            /\ promise' = "pending"
            /\ UNCHANGED <<llm, invocation, errors, result>>
    /\ UNCHANGED <<apiKey, llmModel, runs, papers, prompt, system, response, parsed>>

HexDigits ==
    {"0", "1", "2", "3", "4", "5", "6", "7", "8", "9", "a", "b", "c", "d", "e", "f"}

\* the control characters JSON.stringify writes as \u00XX, each with its escape
ControlEscapes ==
    {<<"u00" \o h \o l, <<"\\", "u", "0", "0", h, l>>>> :
        h \in {"0", "1"}, l \in HexDigits}

\* the surrogate code units, each with the escape of a lone one
HighSurrogateEscapes ==
    {<<"ud" \o a \o b \o c, <<"\\", "u", "d", a, b, c>>>> :
        a \in {"8", "9", "a", "b"}, b \in HexDigits, c \in HexDigits}

LowSurrogateEscapes ==
    {<<"ud" \o a \o b \o c, <<"\\", "u", "d", a, b, c>>>> :
        a \in {"c", "d", "e", "f"}, b \in HexDigits, c \in HexDigits}

ControlChars == {e[1] : e \in ControlEscapes}

HighSurrogates == {e[1] : e \in HighSurrogateEscapes}

LowSurrogates == {e[1] : e \in LowSurrogateEscapes}

UnicodeEscape(c) ==
    (CHOOSE e \in ControlEscapes \cup HighSurrogateEscapes \cup LowSurrogateEscapes :
        e[1] = c)[2]

\* a surrogate that is not half of a pair
LoneSurrogate(s, i) ==
    \/ s[i] \in HighSurrogates /\ ~(i < Len(s) /\ s[i + 1] \in LowSurrogates)
    \/ s[i] \in LowSurrogates /\ ~(i > 1 /\ s[i - 1] \in HighSurrogates)

\* JSON.stringify of a string: what it writes for the code unit at i
EscapeChar(s, i) ==
    IF s[i] = "\"" THEN <<"\\", "\"">>
    ELSE IF s[i] = "\\" THEN <<"\\", "\\">>
    ELSE IF s[i] = "\n" THEN <<"\\", "n">>
    ELSE IF s[i] = "\r" THEN <<"\\", "r">>
    ELSE IF s[i] = "\t" THEN <<"\\", "t">>
    ELSE IF s[i] = "\f" THEN <<"\\", "f">>
    ELSE IF s[i] = "u0008" THEN <<"\\", "b">>
    ELSE IF s[i] \in ControlChars \/ LoneSurrogate(s, i) THEN UnicodeEscape(s[i])
    ELSE <<s[i]>>

RECURSIVE EscapeFrom(_, _)
EscapeFrom(s, i) ==
    IF i > Len(s) THEN <<>> ELSE EscapeChar(s, i) \o EscapeFrom(s, i + 1)

EscapeAll(s) == EscapeFrom(s, 1)

JsonString(s) == <<"\"">> \o EscapeAll(s) \o <<"\"">>

\* JSON.stringify of an array of text blocks {type: 'text', text: ...}
RECURSIVE JsonBlocks(_)
JsonBlocks(blocks) ==
    IF blocks = <<>> THEN <<>>
    ELSE <<"{", "\"", "t", "y", "p", "e", "\"", ":", "\"", "t", "e", "x", "t", "\"", ",", "\"", "t", "e", "x", "t", "\"", ":">> \o JsonString(Head(blocks)) \o <<"}">>
            \o (IF Tail(blocks) = <<>> THEN <<>> ELSE <<",">>)
            \o JsonBlocks(Tail(blocks))

JSONstringify(blocks) == <<"[">> \o JsonBlocks(blocks) \o <<"]">>

\* the backend's answers: content is a string or an array of text blocks,
\* the token count sits in usage_metadata, in response_metadata.usage or nowhere
ReplyContents ==
    { [type |-> "string", value |-> <<>>],
      [type |-> "string", value |-> <<"-", " ", "M", "a", "l", "e", ":", " ", "3", "0", "%", "\n", "-", " ", "F", "e", "m", "a", "l", "e", ":", " ", "7", "0", "%">>],
      [type |-> "string", value |-> mockResponse],
      [type |-> "array", value |-> << <<"-", " ", "A", "s", "i", "a", ":", " ", "1", "2", "%", "\n">>, <<"-", " ", "\"", "A", "f", "r", "i", "c", "a", "\"", ":", " ", "3", "%">> >>],
      [type |-> "array", value |-> << <<"M", "a", "l", "e">> \o <<"u0001">> \o <<"%", " ", "\\">> \o <<"\f", "ud83d">> >>] }

Replies ==
    [ content : ReplyContents,
      usage_metadata : {Undefined, Some(0), Some(3456)},
      response_metadata : {Undefined, Some(1200)} ]

\* awaiting llm.invoke gave undefined: reading its fields throws
NoReply == [undefined |-> TRUE]

tokensUsed(reply) ==
    IF reply.usage_metadata # Undefined
    THEN reply.usage_metadata
    ELSE reply.response_metadata

InvokeResolves ==
    /\ pc = "awaiting"
    /\ invocation.outcome = "resolves"
    /\ \E reply \in Replies \cup {NoReply} :
          IF reply = NoReply
          THEN Catch
          ELSE /\ result' =
                     [ content |->
                           IF reply.content.type = "string"
                           THEN reply.content.value
                           ELSE JSONstringify(reply.content.value),
                       model |-> modelName,
                       tokensUsed |-> tokensUsed(reply) ]
               /\ promise' = "fulfilled"
               /\ pc' = "returned"
               /\ UNCHANGED <<llm, errors>>
    /\ UNCHANGED <<apiKey, llmModel, runs, papers, prompt, system, invocation,
                   response, parsed>>

InvokeRejects ==
    /\ pc = "awaiting"
    /\ invocation.outcome = "rejects"
    /\ Catch
    /\ UNCHANGED <<apiKey, llmModel, runs, papers, prompt, system, invocation,
                   response, parsed>>

\* the timer of the mock path fires and the canned response is returned
TimerFires ==
    /\ pc = "delay"
    /\ result' = [content |-> mockResponse, model |-> "mock-llm-v1",
                  tokensUsed |-> Some(450)]
    /\ promise' = "fulfilled"
    /\ pc' = "returned"
    /\ UNCHANGED <<apiKey, llmModel, llm, runs, papers, prompt, system, invocation,
                   errors, response, parsed>>

\* the caller's await returns and the content goes to the extractor
AnalyzeExtract ==
    /\ pc = "returned"
    /\ promise = "fulfilled"
    /\ response' = result.content
    /\ parsed' = parseDemographicResponse(result.content)
    /\ pc' = "done"
    /\ UNCHANGED clientVarsButPc

Next ==
    \/ Analyze
    \/ callLLM
    \/ InvokeResolves
    \/ InvokeRejects
    \/ TimerFires
    \/ AnalyzeExtract

Spec == Init /\ [][Next]_vars

\* the event loop runs every continuation of callLLM that is ready: the call
\* itself, the settled llm.invoke, the expired timer
FairSpec ==
    /\ Spec
    /\ WF_vars(callLLM)
    /\ WF_vars(InvokeResolves)
    /\ WF_vars(InvokeRejects)
    /\ WF_vars(TimerFires)

-----------------------------------------------------------------------------
(* The extractor on its own: inputs drawn from families of texts           *)

MaxPercent == 150

MaxShift == 1

MaxFrags == 3

RECURSIVE ToDigits(_)
ToDigits(n) ==
    IF n < 10 THEN <<Digits[n + 1]>>
    ELSE ToDigits(n \div 10) \o <<Digits[(n % 10) + 1]>>

Signs == {<<>>, <<"-">>}

\* "Male: 150%", "Male: -5%", ...
PercentLine(label, sign, n) == label \o <<":", " ">> \o sign \o ToDigits(n) \o <<"%">>

PercentLines == {PercentLine(<<"M", "a", "l", "e">>, s, n) : s \in Signs, n \in 0..MaxPercent}

\* the label lines whose labels share a substring
LabelLines ==
    << <<"-", " ", "E", "l", "d", "e", "r", "l", "y", " ", "(", "6", "5", "-", "7", "5", ")", ":", " ">>,
       <<"-", " ", "V", "e", "r", "y", " ", "E", "l", "d", "e", "r", "l", "y", " ", "(", ">", "7", "5", ")", ":", " ">>,
       <<"-", " ", "M", "a", "l", "e", ":", " ">>,
       <<"-", " ", "F", "e", "m", "a", "l", "e", ":", " ">>,
       <<"-", " ", "N", "o", "r", "t", "h", " ", "A", "m", "e", "r", "i", "c", "a", ":", " ">>,
       <<"-", " ", "S", "o", "u", "t", "h", " ", "A", "m", "e", "r", "i", "c", "a", ":", " ">> >>

LinePercent(k, shift) == 10 * k + shift

Orders == {p \in [1..Len(LabelLines) -> 1..Len(LabelLines)] :
              \A a, b \in 1..Len(LabelLines) : a # b => p[a] # p[b]}

RECURSIVE JoinLines(_, _, _)
JoinLines(p, shift, i) ==
    IF i > Len(LabelLines) THEN <<>>
    ELSE LabelLines[p[i]] \o ToDigits(LinePercent(p[i], shift)) \o <<"%">>
            \o (IF i < Len(LabelLines) THEN NL ELSE <<>>)
            \o JoinLines(p, shift, i + 1)

OrderedTexts == [shift \in 0..MaxShift |-> {JoinLines(p, shift, 1) : p \in Orders}]

Fragments ==
    << <<"M", "a", "l", "e">>, <<"F", "e", "m", "a", "l", "e", ":", " ">>, <<"E", "l", "d", "e", "r", "l", "y", " ", "(", "6", "5", "-", "7", "5", ")">>, <<"V", "e", "r", "y", " ", "E", "l", "d", "e", "r", "l", "y">>,
       <<" ", "7">>, <<"1", "2", "%">>, <<"%">>, <<"\n">>, <<"u2028">> >>

RECURSIVE JoinFragments(_)
JoinFragments(fs) ==
    IF fs = <<>> THEN <<>> ELSE Fragments[Head(fs)] \o JoinFragments(Tail(fs))

FragmentTexts ==
    {JoinFragments(fs) : fs \in UNION {[1..n -> 1..Len(Fragments)] : n \in 0..MaxFrags}}

\* digit runs a double does not hold exactly, and one behind leading zeros
LongRuns ==
    { <<"9", "0", "0", "7", "1", "9", "9", "2", "5", "4", "7", "4", "0", "9", "9", "3">>, <<"1", "2", "3", "4", "5", "6", "7", "8", "9", "0", "1", "2", "3", "4", "5", "6", "7", "8", "9", "0", "1", "2", "3", "4", "5">>, <<"2", "1", "4", "7", "4", "8", "3", "6", "4", "8">>,
      <<"0", "0", "0", "0", "0", "0", "0", "0", "0", "0", "0", "4", "2">> }

LongRunLine(d) == <<"M", "a", "l", "e", ":", " ">> \o d \o <<"%">>

LongRunLines == {LongRunLine(d) : d \in LongRuns}

InputTexts ==
    {<<>>, mockResponse} \cup PercentLines \cup LongRunLines \cup FragmentTexts
        \cup UNION {OrderedTexts[s] : s \in 0..MaxShift}

ParseInit ==
    /\ apiKey = Undefined
    /\ llmModel = Undefined
    /\ llm = NULL
    /\ pc = "idle"
    /\ runs = 0
    /\ papers = <<>>
    /\ prompt = <<>>
    /\ system = Undefined
    /\ invocation = NONE
    /\ errors = 0
    /\ promise = "none"
    /\ result = NONE
    /\ response \in InputTexts
    /\ parsed = NONE

Parse ==
    /\ parsed = NONE
    /\ parsed' = parseDemographicResponse(response)
    /\ UNCHANGED <<response, clientVars>>

ParseNext == Parse

ParseSpec == ParseInit /\ [][ParseNext]_vars

-----------------------------------------------------------------------------
(* Properties                                                              *)

AgeKeys == {"0-18", "18-40", "40-65", "65-75", ">75", "not_specified"}

GenderKeys == {"male", "female", "not_specified"}

PregnancyKeys == {"pregnant", "not_pregnant", "not_specified"}

GeographyKeys ==
    {"North America", "Europe", "Asia", "Africa", "Other", "not_specified"}

AllZero(b) ==
    /\ \A k \in DOMAIN b.age : b.age[k] = Exact(0)
    /\ \A k \in DOMAIN b.gender : b.gender[k] = Exact(0)
    /\ \A k \in DOMAIN b.pregnancyStatus : b.pregnancyStatus[k] = Exact(0)
    /\ \A k \in DOMAIN b.geography : b.geography[k] = Exact(0)

\* the current call went to the live backend and the backend failed
LiveCallFailed ==
    /\ invocation # NONE
    /\ invocation.outcome \in {"rejects", "throws"}

\* C1: when a live client exists and llm.invoke throws or rejects, the promise
\* of callLLM is never rejected, and once the call has returned it holds the
\* canned mock content, model 'mock-llm-v1' and tokensUsed 450.
C1_LiveFailureFallsBack ==
    /\ promise # "rejected"
    /\ (LiveCallFailed /\ pc \in {"returned", "done"}) =>
          /\ promise = "fulfilled"
          /\ result.content = mockResponse
          /\ result.model = "mock-llm-v1"
          /\ result.tokensUsed = Some(450)

C1_Witness ==
    /\ llm # NULL
    /\ pc = "returned"
    /\ invocation # NONE
    /\ invocation.outcome = "rejects"
    /\ promise = "fulfilled"
    /\ result.model = "mock-llm-v1"

\* C2: with no credential configured (ANTHROPIC_API_KEY unset or empty), no
\* call ever reaches llm.invoke, and every response returned names the mock
\* backend 'mock-llm-v1'.
C2_NoCredentialNeverLive ==
    (apiKey = Undefined \/ apiKey = Some(<<>>)) =>
        /\ invocation = NONE
        /\ pc # "awaiting"
        /\ promise = "fulfilled" => result.model = "mock-llm-v1"

C2_Witness ==
    /\ apiKey = Some(<<>>)
    /\ runs = 2
    /\ system # Undefined
    /\ pc = "returned"
    /\ result.model = "mock-llm-v1"

\* C3: every call to callLLM eventually returns, also when the live backend
\* never responds (a timeout routes the call to the mock fallback).
C3_EveryCallReturns == (pc = "called") ~> (promise \in {"fulfilled", "rejected"})

\* C4: the live/mock selection is fixed at module initialization: no step
\* changes llm, every call made while a client exists goes to llm.invoke
\* first, whatever failed before, and a call made without a client never does.
C4_SelectionFixed ==
    [][ /\ llm' = llm
        /\ (pc = "called" /\ llm # NULL) => invocation' # NONE
        /\ (pc = "called" /\ llm = NULL) => invocation' = NONE ]_vars

\* a later call is in flight at the live backend after an earlier one failed
C4_Witness ==
    /\ errors >= 1
    /\ llm # NULL
    /\ pc = "awaiting"

\* C5: the extractor on the exact mock text gives the documented values.
C5_MockTextValues ==
    (response = mockResponse /\ parsed # NONE) =>
        /\ parsed.age =
              ("0-18" :> Exact(0)) @@ ("18-40" :> Exact(15)) @@ ("40-65" :> Exact(60)) @@
              ("65-75" :> Exact(45)) @@ (">75" :> Exact(8)) @@ ("not_specified" :> Exact(0))
        /\ parsed.gender =
              ("male" :> Exact(42)) @@ ("female" :> Exact(48)) @@ ("not_specified" :> Exact(10))
        /\ parsed.pregnancyStatus =
              ("pregnant" :> Exact(0)) @@ ("not_pregnant" :> Exact(0)) @@ ("not_specified" :> Exact(100))
        /\ parsed.geography =
              ("North America" :> Exact(52)) @@ ("Europe" :> Exact(28)) @@ ("Asia" :> Exact(12)) @@
              ("Africa" :> Exact(0)) @@ ("Other" :> Exact(8)) @@ ("not_specified" :> Exact(0))

C5_Witness ==
    /\ response = mockResponse
    /\ parsed # NONE
    /\ parsed.geography["Other"] = Exact(8)

\* a number that is not NaN: an integer, a double or a sum of these
IsNumber(v) == DOMAIN v \in {{"int"}, {"double"}, {"sum"}}

\* C6: for every input text the four mappings have exactly the keys of the
\* fixed enumerations and every key holds a number.
C6_FixedKeySets ==
    parsed # NONE =>
        /\ DOMAIN parsed.age = AgeKeys
        /\ DOMAIN parsed.gender = GenderKeys
        /\ DOMAIN parsed.pregnancyStatus = PregnancyKeys
        /\ DOMAIN parsed.geography = GeographyKeys
        /\ \A k \in AgeKeys : IsNumber(parsed.age[k])
        /\ \A k \in GenderKeys : IsNumber(parsed.gender[k])
        /\ \A k \in PregnancyKeys : IsNumber(parsed.pregnancyStatus[k])
        /\ \A k \in GeographyKeys : IsNumber(parsed.geography[k])

\* a text with one label found and the others missing
C6_Witness ==
    /\ response = <<"M", "a", "l", "e", "1", "2", "%", "\n">>
    /\ parsed # NONE
    /\ parsed.gender["male"] = Exact(12)
    /\ parsed.age[">75"] = Exact(0)

\* C7: a model-mode run over zero papers returns a breakdown whose every
\* percentage is 0, whichever backend answered.
C7_EmptyPapersAllZero == (pc = "done" /\ papers = <<>>) => AllZero(parsed)

\* C8 as amended: no clamping and no range validation: the digits written
\* before the percent sign are returned as written, also above 100; a minus
\* sign before them is not read, so 'Male: -5%' gives male = 5.  Leading
\* zeros do not count, and a run of digits that a JavaScript number does not
\* hold exactly gives the nearest double instead of the digits as written.
C8_DigitsAsWritten ==
    parsed # NONE =>
        /\ \A s \in Signs, n \in 0..MaxPercent :
              response = PercentLine(<<"M", "a", "l", "e">>, s, n) =>
                  parsed.gender["male"] = Exact(n)
        /\ response = LongRunLine(<<"0", "0", "0", "0", "0", "0", "0", "0", "0", "0", "0", "4", "2">>) =>
              parsed.gender["male"] = Exact(42)
        /\ response = LongRunLine(<<"2", "1", "4", "7", "4", "8", "3", "6", "4", "8">>) =>
              parsed.gender["male"] = Double(<<"2", "1", "4", "7", "4", "8", "3", "6", "4", "8">>)
        /\ response = LongRunLine(<<"9", "0", "0", "7", "1", "9", "9", "2", "5", "4", "7", "4", "0", "9", "9", "3">>) =>
              parsed.gender["male"] = Double(<<"9", "0", "0", "7", "1", "9", "9", "2", "5", "4", "7", "4", "0", "9", "9", "3">>)
        /\ response = LongRunLine(<<"1", "2", "3", "4", "5", "6", "7", "8", "9", "0", "1", "2", "3", "4", "5", "6", "7", "8", "9", "0", "1", "2", "3", "4", "5">>) =>
              parsed.gender["male"] = Double(<<"1", "2", "3", "4", "5", "6", "7", "8", "9", "0", "1", "2", "3", "4", "5", "6", "7", "8", "9", "0", "1", "2", "3", "4", "5">>)

C8_Witness ==
    /\ response = <<"M", "a", "l", "e", ":", " ", "-", "5", "%">>
    /\ parsed # NONE
    /\ parsed.gender["male"] = Exact(5)

\* C8 as claimed: the percentage is returned as written, sign included:
\* 'Male: 150%' gives 150 and 'Male: -5%' gives -5.
C8_SignedAsWritten ==
    parsed # NONE =>
        \A n \in 0..MaxPercent :
            /\ response = PercentLine(<<"M", "a", "l", "e">>, <<>>, n) =>
                  parsed.gender["male"] = Exact(n)
            /\ response = PercentLine(<<"M", "a", "l", "e">>, <<"-">>, n) =>
                  parsed.gender["male"] = Exact(-n)

\* C9: labels that share a substring never cross-match, in any order of the
\* label lines: each key takes the percentage of its own line.
C9_NoCrossMatch ==
    parsed # NONE =>
        \A shift \in 0..MaxShift :
            response \in OrderedTexts[shift] =>
                /\ parsed.age["65-75"] = Exact(LinePercent(1, shift))
                /\ parsed.age[">75"] = Exact(LinePercent(2, shift))
                /\ parsed.gender["male"] = Exact(LinePercent(3, shift))
                /\ parsed.gender["female"] = Exact(LinePercent(4, shift))
                /\ parsed.geography["North America"] = Exact(LinePercent(5, shift))
                /\ parsed.geography["Other"] = Exact(LinePercent(6, shift))

\* the adversarial order: every line comes before the one it could be taken for
C9_Witness ==
    /\ response = JoinLines(<<2, 1, 4, 3, 6, 5>>, 0, 1)
    /\ parsed # NONE
    /\ parsed.age["65-75"] = Exact(10)
    /\ parsed.age[">75"] = Exact(20)

\* C10: on the empty string every percentage is 0, and the findings are the
\* fixed list of 5 strings, the same for every input text.
C10_EmptyText ==
    parsed # NONE =>
        /\ Len(parsed.criticalFindings) = 5
        /\ parsed.criticalFindings = parseDemographicResponse(<<>>).criticalFindings
        /\ response = <<>> => AllZero(parsed)

C10_Witness ==
    /\ response = <<>>
    /\ parsed # NONE
    /\ AllZero(parsed)
    /\ Len(parsed.criticalFindings) = 5

====
